---- MODULE Spec2Model ----
(***************************************************************************)
(* Model of the React hook useAutoScroll                                   *)
(* (src/src/common/useAutoScroll/useAutoScroll.tsx).                       *)
(*                                                                         *)
(* The hook keeps five ref cells (handleRef, parentRef, parentRectRef,     *)
(* positionXRef, positionYRef), registers two document listeners while     *)
(* enabled and polls the pointer position from an animation-frame loop.    *)
(* The environment (React, the document, the frame scheduler, the DOM      *)
(* element that is scrolled) is modelled by the variables that the hook's  *)
(* code reads and writes through it.                                       *)
(*                                                                         *)
(* Numbers.  Pointer coordinates, rectangles and scroll offsets are        *)
(* integers.  intensity is a fraction num/den, so that                     *)
(* nextScrollLeft is the fraction (scrollLeft*den +/- depth*num)/den and   *)
(* Math.round is computed on it exactly (ties go up, as in JavaScript).    *)
(* With the intensities used here (1/5, 1/2) and integer inputs the IEEE   *)
(* double result of the source expression rounds to the same integer.      *)
(***************************************************************************)
EXTENDS FiniteSets, Integers, Sequences, TLC

VARIABLES
    mounted,        \* the component that uses the hook is mounted
    enabled,        \* options.enabled as seen by the last run of the [enabled] effect
    reference,      \* options.reference as seen by the last run of the [reference] effect
    props,          \* options.size / intensity / onScroll of the latest render
    effect,         \* closure (render) whose [enabled] effect is installed; its cleanup runs next
    handleRef,      \* handleRef.current; 0 is null
    parentRef,      \* parentRef.current; "null" or a scroll parent
    parentRectRef,  \* parentRectRef.current; Null or Some(rect)
    positionXRef,   \* positionXRef.current; Null or Some(x)
    positionYRef,   \* positionYRef.current; Null or Some(y)
    listeners,      \* document listeners: records [type, id] (id: the closure that owns the handler)
    scheduled,      \* frame requests outstanding in the scheduler: records [handle, closure]
    scroll,         \* scrollLeft / scrollTop of every scroll parent
    layout,         \* the bounding client rectangle every scroll parent has now
    armedProps,     \* history: the options of the render in which enabled last became true
    lastMove,       \* history: last position delivered to a listener in the current armed period
    log             \* history: what the last event did (writes, onScroll calls, frame requests)

vars == <<mounted, enabled, reference, props, effect, handleRef, parentRef, parentRectRef,
          positionXRef, positionYRef, listeners, scheduled, scroll, layout, armedProps,
          lastMove, log>>

(***************************************************************************)
(* Nullable cells.                                                         *)
(***************************************************************************)
Null == <<>>
Some(v) == <<v>>
Val(r) == r[1]
\* A nullable number where JavaScript wants a number: null converts to 0.
Num(r) == IF r = Null THEN 0 ELSE r[1]

Min(a, b) == IF a < b THEN a ELSE b
Max(a, b) == IF a > b THEN a ELSE b

(***************************************************************************)
(* Bounds of the model.                                                    *)
(***************************************************************************)
\* Frame requests that may be outstanding at once (guards the first checkStep of an arming).
MaxOutstanding == 2

\* Pointer coordinates delivered by mousemove / touchmove events.
PointerXs == {-20, 250, 520}
PointerYs == {-20, 150, 320}
Positions == [x : PointerXs, y : PointerYs]

\* Scroll offsets the scroll parents may have when the component mounts.
InitialOffsets == {0, 14}

(***************************************************************************)
(* The document: subject elements, their scroll parents and the geometry   *)
(* of the scroll parents.                                                  *)
(***************************************************************************)
Elements == {"e1", "e2"}
Parents == {"p1", "p2"}

\* ./util getScrollParent: the scrollable ancestor of a subject element.
getScrollParent(e) == IF e = "e1" THEN "p1" ELSE "p2"

\* The rectangle of every scroll parent when the component mounts.  p2 is narrower than
\* two gutters of the default size.
InitialLayout ==
    [p \in Parents |->
        IF p = "p1" THEN [top |-> 0, left |-> 0, right |-> 500, bottom |-> 300]
                    ELSE [top |-> 100, left |-> 100, right |-> 180, bottom |-> 160]]

\* The rectangles a scroll parent takes when the page is laid out again (p2 is resized).
Rects(p) ==
    IF p = "p1" THEN {InitialLayout[p]}
                ELSE {InitialLayout[p], [top |-> 100, left |-> 100, right |-> 400, bottom |-> 160]}

\* Element.getBoundingClientRect() of a scroll parent.
getBoundingClientRect(p) == layout[p]

\* Element.scrollWidth / Element.scrollHeight of a scroll parent (p2 has no scrollable range).
scrollWidth(p) == IF p = "p1" THEN 30 ELSE 0
scrollHeight(p) == IF p = "p1" THEN 20 ELSE 0

(***************************************************************************)
(* Options of a render.  DefaultProps are the defaults of the              *)
(* destructuring in useAutoScroll; CallerProps is a caller that sets all   *)
(* three.  onScroll "noop" is lodash noop, "cb" a caller's callback.       *)
(***************************************************************************)
DefaultSize == 50
DefaultIntensity == [num |-> 1, den |-> 5]
DefaultProps == [size |-> DefaultSize, intensity |-> DefaultIntensity, onScroll |-> "noop"]
CallerProps == [size |-> 60, intensity |-> [num |-> 1, den |-> 2], onScroll |-> "cb"]
PropsSet == {DefaultProps, CallerProps}


(***************************************************************************)
(* A closure is one render of the hook: the options it destructured and    *)
(* the identity of the functions (checkScroll, handleMouseMove,            *)
(* handleTouchMove) it created.  Identities are recycled: a new render     *)
(* gets the least id that no outstanding frame and no registered listener  *)
(* still refers to.                                                        *)
(***************************************************************************)
UsedIds(frames, lst) == {f.closure.id : f \in frames} \cup {l.id : l \in lst}

LeastNotIn(S) == CHOOSE n \in 1..(Cardinality(S) + 1) : n \notin S /\ \A k \in 1..(n - 1) : k \in S

useAutoScroll(p, frames, lst) ==
    [id |-> LeastNotIn(UsedIds(frames, lst)),
     size |-> p.size, intensity |-> p.intensity, onScroll |-> p.onScroll]

(***************************************************************************)
(* The display-frame scheduler.  A handle is a positive integer that no    *)
(* outstanding request has; cancelling a handle that is not outstanding    *)
(* (already fired, already cancelled) does nothing.                        *)
(***************************************************************************)
requestAnimationFrame(frames) == LeastNotIn({f.handle : f \in frames})
cancelAnimationFrame(frames, h) == {f \in frames : f.handle # h}

\* Variant of checkStep that requests the frame and does not store the handle.
checkStepForgetsHandle(frames, c) ==
    LET h == requestAnimationFrame(frames)
    IN [handleRef |-> 0, scheduled |-> frames \cup {[handle |-> h, closure |-> c]}]

\* checkStep(checkScroll) of closure c: request a frame and remember its handle.
checkStep(frames, c) ==
    LET h == requestAnimationFrame(frames)
    IN [handleRef |-> h, scheduled |-> frames \cup {[handle |-> h, closure |-> c]}]

\* Variant of checkScrollReturnEarly that returns without requesting a frame.
checkScrollReturnsWithoutStep(frames, c) == [handleRef |-> 0, scheduled |-> frames]

\* The two early returns of checkScroll: return checkStep(checkScroll).
checkScrollReturnEarly(frames, c) == checkStep(frames, c)

(***************************************************************************)
(* checkScroll, the arithmetic.                                            *)
(***************************************************************************)
edgeBottom(rect, size) == rect.bottom - size
edgeLeft(rect, size) == rect.left + size
edgeRight(rect, size) == rect.right - size
edgeTop(rect, size) == rect.top + size

isEdgeBottom(rect, size, y) == y > edgeBottom(rect, size)
isEdgeLeft(rect, size, x) == x < edgeLeft(rect, size)
isEdgeRight(rect, size, x) == x > edgeRight(rect, size)
isEdgeTop(rect, size, y) == y < edgeTop(rect, size)

\* Variant of noEdge whose comparisons include the gutter boundaries.
noEdgeInclusive(rect, size, x, y) ==
    ~(y >= edgeBottom(rect, size)) /\ ~(x <= edgeLeft(rect, size))
        /\ ~(x >= edgeRight(rect, size)) /\ ~(y <= edgeTop(rect, size))

\* The guard of the second early return: no gutter predicate holds.
noEdge(rect, size, x, y) ==
    ~isEdgeBottom(rect, size, y) /\ ~isEdgeLeft(rect, size, x)
        /\ ~isEdgeRight(rect, size, x) /\ ~isEdgeTop(rect, size, y)

\* Variant of nextScrollTop with two independent ifs: both gutters apply.
nextScrollTopBothGutters(rect, size, intensity, y, top) ==
    top * intensity.den
        - (IF isEdgeTop(rect, size, y) THEN (edgeTop(rect, size) - y) * intensity.num ELSE 0)
        + (IF isEdgeBottom(rect, size, y) THEN (y - edgeBottom(rect, size)) * intensity.num ELSE 0)

\* Variant of nextScrollLeft that measures the depth from the edge of the rectangle.
nextScrollLeftFromRectEdge(rect, size, intensity, x, left) ==
    IF isEdgeLeft(rect, size, x)
        THEN left * intensity.den - (rect.left - x) * intensity.num
    ELSE IF isEdgeRight(rect, size, x)
        THEN left * intensity.den + (x - rect.right) * intensity.num
    ELSE left * intensity.den

\* nextScrollLeft and nextScrollTop after the two if/else-if blocks, as numerators
\* over intensity.den.
nextScrollLeft(rect, size, intensity, x, left) ==
    IF isEdgeLeft(rect, size, x)
        THEN left * intensity.den - (edgeLeft(rect, size) - x) * intensity.num
    ELSE IF isEdgeRight(rect, size, x)
        THEN left * intensity.den + (x - edgeRight(rect, size)) * intensity.num
    ELSE left * intensity.den

nextScrollTop(rect, size, intensity, y, top) ==
    IF isEdgeTop(rect, size, y)
        THEN top * intensity.den - (edgeTop(rect, size) - y) * intensity.num
    ELSE IF isEdgeBottom(rect, size, y)
        THEN top * intensity.den + (y - edgeBottom(rect, size)) * intensity.num
    ELSE top * intensity.den

\* Variant of nextScroll with the four gutters in one if / else-if chain.
nextScrollChained(rect, size, intensity, x, y, sc) ==
    [left |-> nextScrollLeft(rect, size, intensity, x, sc.left),
     top |-> IF isEdgeLeft(rect, size, x) \/ isEdgeRight(rect, size, x)
                THEN sc.top * intensity.den
                ELSE nextScrollTop(rect, size, intensity, y, sc.top)]

\* The locals nextScrollLeft / nextScrollTop when the assignments are reached.
nextScroll(rect, size, intensity, x, y, sc) ==
    [left |-> nextScrollLeft(rect, size, intensity, x, sc.left),
     top |-> nextScrollTop(rect, size, intensity, y, sc.top)]

\* Variant of MathRound: Math.ceil(n / d).
MathCeil(n, d) == -((-n) \div d)

\* Variant of MathRound: Math.floor(n / d).
MathFloor(n, d) == n \div d

\* Math.round(n / d) for d > 0: the nearest integer, a tie going up.
MathRound(n, d) == (2 * n + d) \div (2 * d)

\* Variant of sanitize that stops one short of the limit.
sanitizeBelowLimit(n, d, limit) == Max(0, Min(MathRound(n, d), Max(0, limit - 1)))

\* Variant of sanitize without the Math.max(0, ...).
sanitizeNoMax(n, d, limit) == Min(MathRound(n, d), limit)

\* Math.max(0, Math.min(Math.round(n / d), limit))
sanitize(n, d, limit) == Max(0, Min(MathRound(n, d), limit))

\* Variant of notReady that does not test the pointer position.
notReadyIgnoresPosition(parent, rectRef, xRef, yRef) ==
    parent = "null" \/ rectRef = Null

\* The first early return: target, bounds or pointer position not available.
notReady(parent, rectRef, xRef, yRef) ==
    parent = "null" \/ rectRef = Null \/ xRef = Null \/ yRef = Null

(***************************************************************************)
(* The cleanup returned by the [enabled] effect of closure c, applied to   *)
(* the cells it touches.                                                   *)
(***************************************************************************)
\* Variant of cleanup that does not cancel the scheduled frame.
cleanupNoCancel(c, h, frames, lst) ==
    [scheduled |-> frames,
     handleRef |-> 0,
     positionXRef |-> Null,
     positionYRef |-> Null,
     listeners |-> lst \ {[type |-> "mousemove", id |-> c.id], [type |-> "touchmove", id |-> c.id]}]

\* Variant of cleanup that does not reset the pointer position.
cleanupKeepsPosition(c, h, frames, lst) ==
    [scheduled |-> IF h # 0 THEN cancelAnimationFrame(frames, h) ELSE frames,
     handleRef |-> 0,
     positionXRef |-> positionXRef,
     positionYRef |-> positionYRef,
     listeners |-> lst \ {[type |-> "mousemove", id |-> c.id], [type |-> "touchmove", id |-> c.id]}]

cleanup(c, h, frames, lst) ==
    [scheduled |-> IF h # 0 THEN cancelAnimationFrame(frames, h) ELSE frames,
     handleRef |-> 0,
     positionXRef |-> Null,
     positionYRef |-> Null,
     listeners |-> lst \ {[type |-> "mousemove", id |-> c.id], [type |-> "touchmove", id |-> c.id]}]


(***************************************************************************)
(* History of the last event.  Only a frame fills the frame fields.        *)
(***************************************************************************)
Armed == mounted /\ enabled

Quiet(kind) ==
    [kind |-> kind,
     armed |-> Armed,           \* the loop was enabled when the event began
     handle |-> 0,              \* the frame request that fired
     closure |-> Null,          \* the closure whose checkScroll ran
     parent |-> "null",         \* the four cells as checkScroll read them
     rect |-> Null,
     x |-> Null,
     y |-> Null,
     before |-> Null,           \* scroll offsets of every scroll parent when the frame began
     next |-> Null,             \* the locals nextScrollLeft / nextScrollTop (numerators over intensity.den)
     writes |-> <<>>,           \* assignments to parent.scrollLeft / parent.scrollTop, in order
     calls |-> <<>>,            \* onScroll invocations, in order
     requested |-> {},          \* handles returned by requestAnimationFrame during the event
     cleanup |-> FALSE,         \* the effect cleanup ran during the event
     cancelled |-> 0,           \* the handle that cleanup passed to cancelAnimationFrame
     leftover |-> {},           \* requests still outstanding right after that cleanup
     armedProps |-> Null,       \* armedProps when the frame began
     lastMove |-> Null]         \* lastMove when the frame began

(***************************************************************************)
(* Initial state: the component has mounted with enabled false and a null  *)
(* reference; every ref cell holds its useRef(null) value.                 *)
(***************************************************************************)
Init ==
    /\ mounted = TRUE
    /\ enabled = FALSE
    /\ reference = "null"
    /\ props \in PropsSet
    /\ effect = useAutoScroll(props, {}, {})
    /\ handleRef = 0
    /\ parentRef = "null"
    /\ parentRectRef = Null
    /\ positionXRef = Null
    /\ positionYRef = Null
    /\ listeners = {}
    /\ scheduled = {}
    /\ scroll \in {sc \in [Parents -> [left : InitialOffsets \cup {0}, top : InitialOffsets \cup {0}]] :
                      \A p \in Parents : sc[p].left <= scrollWidth(p) /\ sc[p].top <= scrollHeight(p)}
    /\ layout = InitialLayout
    /\ armedProps = Null
    /\ lastMove = Null
    /\ log = [Quiet("mount") EXCEPT !.armed = FALSE]

(***************************************************************************)
(* A render that changes size, intensity or onScroll only: no effect runs. *)
(***************************************************************************)
\* Variant of Rerender in which the effect also depends on the options: while enabled,
\* the cleanup runs and the effect of the new render starts a loop with the new values.
RerenderRunsEffect(p) ==
    /\ mounted
    /\ p # props
    /\ props' = p
    /\ IF enabled
          THEN LET cl == cleanup(effect, handleRef, scheduled, listeners)
                   c == useAutoScroll(p, cl.scheduled, cl.listeners)
                   st == checkStep(cl.scheduled, c)
               IN /\ Cardinality(cl.scheduled) < MaxOutstanding
                  /\ effect' = c
                  /\ listeners' = cl.listeners \cup {[type |-> "mousemove", id |-> c.id],
                                                     [type |-> "touchmove", id |-> c.id]}
                  /\ handleRef' = st.handleRef
                  /\ scheduled' = st.scheduled
                  /\ positionXRef' = cl.positionXRef
                  /\ positionYRef' = cl.positionYRef
          ELSE UNCHANGED <<effect, listeners, handleRef, scheduled, positionXRef, positionYRef>>
    /\ log' = Quiet("render")
    /\ UNCHANGED <<mounted, enabled, reference, parentRef, parentRectRef, scroll, layout,
                   armedProps, lastMove>>

Rerender(p) ==
    /\ mounted
    /\ p # props
    /\ props' = p
    /\ log' = Quiet("render")
    /\ UNCHANGED <<mounted, enabled, reference, effect, handleRef, parentRef, parentRectRef,
                   positionXRef, positionYRef, listeners, scheduled, scroll, layout,
                   armedProps, lastMove>>

(***************************************************************************)
(* The [reference] effect: a render with another reference.                *)
(***************************************************************************)
\* Variant of SetReference that forgets the target when the reference becomes null.
SetReferenceClearsOnNull(r) ==
    /\ mounted
    /\ r # reference
    /\ reference' = r
    /\ IF r # "null"
          THEN /\ parentRef' = getScrollParent(r)
               /\ parentRectRef' = Some(getBoundingClientRect(getScrollParent(r)))
          ELSE /\ parentRef' = "null"
               /\ parentRectRef' = Null
    /\ log' = Quiet("reference")
    /\ UNCHANGED <<mounted, enabled, props, effect, handleRef, positionXRef, positionYRef,
                   listeners, scheduled, scroll, layout, armedProps, lastMove>>

SetReference(r) ==
    /\ mounted
    /\ r # reference
    /\ reference' = r
    /\ IF r # "null"
          THEN /\ parentRef' = getScrollParent(r)
               /\ parentRectRef' = Some(getBoundingClientRect(getScrollParent(r)))
          ELSE UNCHANGED <<parentRef, parentRectRef>>
    /\ log' = Quiet("reference")
    /\ UNCHANGED <<mounted, enabled, props, effect, handleRef, positionXRef, positionYRef,
                   listeners, scheduled, scroll, layout, armedProps, lastMove>>

(***************************************************************************)
(* The [enabled] effect, enabled false -> true: the cleanup of the         *)
(* installed effect runs, then the body of the new render's effect adds    *)
(* the listeners and requests the first frame.                             *)
(***************************************************************************)
Enable ==
    /\ mounted
    /\ ~enabled
    /\ LET cl == cleanup(effect, handleRef, scheduled, listeners)
           c == useAutoScroll(props, cl.scheduled, cl.listeners)
           st == checkStep(cl.scheduled, c)
       IN /\ Cardinality(cl.scheduled) < MaxOutstanding
          /\ enabled' = TRUE
          /\ effect' = c
          /\ listeners' = cl.listeners \cup {[type |-> "mousemove", id |-> c.id],
                                             [type |-> "touchmove", id |-> c.id]}
          /\ handleRef' = st.handleRef
          /\ scheduled' = st.scheduled
          /\ positionXRef' = cl.positionXRef
          /\ positionYRef' = cl.positionYRef
          /\ lastMove' = Null
          /\ armedProps' = Some(props)
          /\ log' = [Quiet("enable") EXCEPT !.cleanup = TRUE, !.cancelled = handleRef,
                                    !.leftover = cl.scheduled,
                                            !.requested = {st.handleRef}]
    /\ UNCHANGED <<mounted, reference, props, parentRef, parentRectRef, scroll, layout>>

(***************************************************************************)
(* The [enabled] effect, enabled true -> false: the cleanup runs, the body *)
(* of the new render's effect does nothing.                                *)
(***************************************************************************)
Disable ==
    /\ mounted
    /\ enabled
    /\ LET cl == cleanup(effect, handleRef, scheduled, listeners)
       IN /\ enabled' = FALSE
          /\ effect' = useAutoScroll(props, cl.scheduled, cl.listeners)
          /\ listeners' = cl.listeners
          /\ handleRef' = cl.handleRef
          /\ scheduled' = cl.scheduled
          /\ positionXRef' = cl.positionXRef
          /\ positionYRef' = cl.positionYRef
          /\ lastMove' = Null
          /\ armedProps' = Null
          /\ log' = [Quiet("disable") EXCEPT !.cleanup = TRUE, !.cancelled = handleRef,
                                    !.leftover = cl.scheduled]
    /\ UNCHANGED <<mounted, reference, props, parentRef, parentRectRef, scroll, layout>>

(***************************************************************************)
(* The component is torn down: the cleanup of the installed effect runs.   *)
(***************************************************************************)
Unmount ==
    /\ mounted
    /\ LET cl == cleanup(effect, handleRef, scheduled, listeners)
       IN /\ mounted' = FALSE
          /\ listeners' = cl.listeners
          /\ handleRef' = cl.handleRef
          /\ scheduled' = cl.scheduled
          /\ positionXRef' = cl.positionXRef
          /\ positionYRef' = cl.positionYRef
          /\ lastMove' = Null
          /\ armedProps' = Null
          /\ log' = [Quiet("unmount") EXCEPT !.cleanup = TRUE, !.cancelled = handleRef,
                                    !.leftover = cl.scheduled]
    /\ UNCHANGED <<enabled, reference, props, effect, parentRef, parentRectRef, scroll, layout>>

(***************************************************************************)
(* The document dispatches a mousemove / touchmove event.  The handlers    *)
(* run only if a listener of that type is registered.                      *)
(***************************************************************************)
Registered(type) == \E l \in listeners : l.type = type

handleMouseMove(clientX, clientY) == [positionXRef |-> Some(clientX), positionYRef |-> Some(clientY)]

\* Variant of handleTouchMove that takes the last touch of the list.
handleTouchMoveLastTouch(targetTouches) ==
    [positionXRef |-> Some(targetTouches[Len(targetTouches)].x),
     positionYRef |-> Some(targetTouches[Len(targetTouches)].y)]

handleTouchMove(targetTouches) ==
    [positionXRef |-> Some(targetTouches[1].x), positionYRef |-> Some(targetTouches[1].y)]

MouseMove(pos) ==
    /\ IF Registered("mousemove")
          THEN LET w == handleMouseMove(pos.x, pos.y)
               IN /\ positionXRef' = w.positionXRef
                  /\ positionYRef' = w.positionYRef
                  /\ lastMove' = Some(pos)
          ELSE UNCHANGED <<positionXRef, positionYRef, lastMove>>
    /\ log' = Quiet("mousemove")
    /\ UNCHANGED <<mounted, enabled, reference, props, effect, handleRef, parentRef,
                   parentRectRef, listeners, scheduled, scroll, layout, armedProps>>

\* Touch lists of a touchmove event: one touch, or a first touch and a second one.
TouchLists ==
    {<<t>> : t \in Positions} \cup {<<t, [x |-> 250, y |-> 150]>> : t \in {u \in Positions : u.y = 150}}

TouchMove(targetTouches) ==
    /\ IF Registered("touchmove")
          THEN LET w == handleTouchMove(targetTouches)
               IN /\ positionXRef' = w.positionXRef
                  /\ positionYRef' = w.positionYRef
                  /\ lastMove' = Some(targetTouches[1])
          ELSE UNCHANGED <<positionXRef, positionYRef, lastMove>>
    /\ log' = Quiet("touchmove")
    /\ UNCHANGED <<mounted, enabled, reference, props, effect, handleRef, parentRef,
                   parentRectRef, listeners, scheduled, scroll, layout, armedProps>>


(***************************************************************************)
(* checkScroll, the effects of one invocation after both early returns.    *)
(***************************************************************************)
\* The two assignments to the scroll parent p, in source order; next holds the locals
\* nextScrollLeft / nextScrollTop as numerators over den.
checkScrollWrites(p, next, den) ==
    <<[field |-> "scrollLeft", value |-> sanitize(next.left, den, scrollWidth(p))],
      [field |-> "scrollTop", value |-> sanitize(next.top, den, scrollHeight(p))]>>

\* Variant of checkScrollCalls with the arguments exchanged.
checkScrollCallsSwapped(c, x, y) == <<[fn |-> c.onScroll, x |-> y, y |-> x]>>

\* onScroll(positionX, positionY)
checkScrollCalls(c, x, y) == <<[fn |-> c.onScroll, x |-> x, y |-> y]>>

\* The scroll offsets of an element after a sequence of assignments to it.
RECURSIVE ApplyWrites(_, _)
ApplyWrites(sc, ws) ==
    IF ws = <<>> THEN sc
    ELSE ApplyWrites(IF Head(ws).field = "scrollLeft"
                        THEN [sc EXCEPT !.left = Head(ws).value]
                        ELSE [sc EXCEPT !.top = Head(ws).value],
                     Tail(ws))

(***************************************************************************)
(* What the caller's onScroll callback does while checkScroll waits for it *)
(* to return: nothing, or it makes React run the effect cleanup            *)
(* synchronously, by disabling the hook or by unmounting the component.    *)
(* lodash noop does nothing.                                               *)
(***************************************************************************)
Reactions == {"none", "disable", "unmount"}

(***************************************************************************)
(* The scheduler fires the frame request f: one invocation of checkScroll  *)
(* of f's closure, up to and including its checkStep.                      *)
(***************************************************************************)
FrameFire(f, reaction) ==
    /\ f \in scheduled
    /\ LET q0 == scheduled \ {f}
           c == f.closure
           parent == parentRef
           entry == [Quiet("frame") EXCEPT
                        !.handle = f.handle, !.closure = Some(c), !.parent = parent,
                        !.rect = parentRectRef, !.x = positionXRef, !.y = positionYRef,
                        !.before = Some(scroll), !.armedProps = armedProps,
                        !.lastMove = lastMove]
       IN IF notReady(parent, parentRectRef, positionXRef, positionYRef)
             \/ noEdge(Val(parentRectRef), c.size, Num(positionXRef), Num(positionYRef))
          THEN \* return checkStep(checkScroll)
               LET st == checkScrollReturnEarly(q0, c)
               IN /\ reaction = "none"
                  /\ handleRef' = st.handleRef
                  /\ scheduled' = st.scheduled
                  /\ log' = [entry EXCEPT
                                !.requested = {g.handle : g \in st.scheduled \ q0}]
                  /\ UNCHANGED <<mounted, enabled, effect, positionXRef, positionYRef,
                                 listeners, scroll, armedProps, lastMove>>
          ELSE LET rect == Val(parentRectRef)
                   x == Num(positionXRef)
                   y == Num(positionYRef)
                   next == nextScroll(rect, c.size, c.intensity, x, y, scroll[parent])
                   ws == checkScrollWrites(parent, next, c.intensity.den)
                   calls == checkScrollCalls(c, x, y)
                   cl == cleanup(effect, handleRef, q0, listeners)
                   torn == reaction # "none" /\ calls # <<>>
                   st == checkStep(IF torn THEN cl.scheduled ELSE q0, c)
               IN /\ reaction # "none" =>
                        /\ c.onScroll = "cb"
                        /\ mounted
                        /\ reaction = "disable" => enabled
                  /\ scroll' = [scroll EXCEPT ![parent] = ApplyWrites(@, ws)]
                  /\ mounted' = IF torn /\ reaction = "unmount" THEN FALSE ELSE mounted
                  /\ enabled' = IF torn /\ reaction = "disable" THEN FALSE ELSE enabled
                  /\ effect' = IF torn /\ reaction = "disable"
                                  THEN useAutoScroll(props, cl.scheduled \cup {f}, cl.listeners)
                                  ELSE effect
                  /\ listeners' = IF torn THEN cl.listeners ELSE listeners
                  /\ positionXRef' = IF torn THEN cl.positionXRef ELSE positionXRef
                  /\ positionYRef' = IF torn THEN cl.positionYRef ELSE positionYRef
                  /\ lastMove' = IF torn THEN Null ELSE lastMove
                  /\ armedProps' = IF torn THEN Null ELSE armedProps
                  /\ handleRef' = st.handleRef
                  /\ scheduled' = st.scheduled
                  /\ log' = [entry EXCEPT !.next = Some(next), !.writes = ws, !.calls = calls,
                                          !.cancelled = IF torn THEN handleRef ELSE 0,
                                          !.requested = {st.handleRef},
                                          !.cleanup = torn,
                                          !.leftover = IF torn THEN cl.scheduled ELSE {}]
    /\ UNCHANGED <<reference, props, parentRef, parentRectRef, layout>>

(***************************************************************************)
(* The page is laid out again and the scroll parent p gets the rectangle   *)
(* r.  No code of the hook runs.                                           *)
(***************************************************************************)
Resize(p, r) ==
    /\ r \in Rects(p)
    /\ r # layout[p]
    /\ layout' = [layout EXCEPT ![p] = r]
    /\ log' = Quiet("resize")
    /\ UNCHANGED <<mounted, enabled, reference, props, effect, handleRef, parentRef,
                   parentRectRef, positionXRef, positionYRef, listeners, scheduled, scroll,
                   armedProps, lastMove>>

Next ==
    \/ \E p \in PropsSet : Rerender(p)
    \/ \E r \in Elements \cup {"null"} : SetReference(r)
    \/ Enable
    \/ Disable
    \/ Unmount
    \/ \E pos \in Positions : MouseMove(pos)
    \/ \E touches \in TouchLists : TouchMove(touches)
    \/ \E f \in scheduled, reaction \in Reactions : FrameFire(f, reaction)
    \/ \E p \in Parents : \E r \in Rects(p) : Resize(p, r)

Spec == Init /\ [][Next]_vars


(***************************************************************************)
(* A second specification for the arithmetic of checkScroll.  It starts    *)
(* in the armed states reached by an arming, a reference to an element     *)
(* and one pointer move, with the pointer and the scroll offsets drawn     *)
(* from wider sets (gutter boundaries, rounding ties, positions far        *)
(* outside the rectangle), and then lets the frames fire.                  *)
(***************************************************************************)
CalcXs == {-1000, -20, 40, 49, 50, 51, 59, 60, 140, 250, 440, 441, 450, 451, 453, 455, 520}
CalcYs == {-20, 49, 50, 51, 130, 150, 250, 251, 253, 320, 2000}
CalcLefts == {0, 1, 14, 29, 30}
CalcTops == {0, 1, 14, 19, 20}
\* p1 as it is at mount, or narrower and lower than two gutters.
CalcLayouts ==
    {InitialLayout, [InitialLayout EXCEPT !["p1"] = [top |-> 0, left |-> 0, right |-> 80, bottom |-> 60]]}

InitCalc ==
    /\ mounted = TRUE
    /\ enabled = TRUE
    /\ reference \in Elements
    /\ props \in PropsSet
    /\ layout \in CalcLayouts
    /\ armedProps = Some(props)
    /\ effect = useAutoScroll(props, {}, {})
    /\ handleRef = checkStep({}, effect).handleRef
    /\ scheduled = checkStep({}, effect).scheduled
    /\ parentRef = getScrollParent(reference)
    /\ parentRectRef = Some(getBoundingClientRect(parentRef))
    /\ \E pos \in [x : CalcXs, y : CalcYs] :
          /\ positionXRef = handleMouseMove(pos.x, pos.y).positionXRef
          /\ positionYRef = handleMouseMove(pos.x, pos.y).positionYRef
          /\ lastMove = Some(pos)
    /\ listeners = {[type |-> "mousemove", id |-> effect.id], [type |-> "touchmove", id |-> effect.id]}
    /\ scroll \in {sc \in [Parents -> [left : CalcLefts, top : CalcTops]] :
                      /\ \A p \in Parents : sc[p].left <= scrollWidth(p) /\ sc[p].top <= scrollHeight(p)
                      /\ \A p \in Parents \ {parentRef} : sc[p] = [left |-> 0, top |-> 0]}
    /\ log = Quiet("mousemove")

NextCalc == \E f \in scheduled : FrameFire(f, "none")

SpecCalc == InitCalc /\ [][NextCalc]_vars

(***************************************************************************)
(* The pointer is held at a fixed position while the scheduler fires every *)
(* requested frame: the armed states of InitCalc with the position in or   *)
(* between the gutters, and checkScroll running frame after frame.         *)
(***************************************************************************)
HoldXs == {-20, 40, 250, 455, 520}
HoldYs == {-20, 49, 150, 320}

InitHold ==
    /\ InitCalc
    /\ Val(lastMove).x \in HoldXs
    /\ Val(lastMove).y \in HoldYs

SpecHold == InitHold /\ [][NextCalc]_vars /\ WF_vars(NextCalc)


(***************************************************************************)
(* Properties.                                                             *)
(***************************************************************************)

\* C1 (lifecycle cleanup): an event that begins while the loop is not enabled (disabled
\* or torn down) writes no scroll offset and calls no onScroll, also when it is a pointer
\* move or a frame; and whenever the effect cleanup runs, no frame request that was
\* outstanding at that moment stays outstanding (it is cancelled, so it never fires).
C1_LifecycleCleanup ==
    /\ [](/\ ~log.armed => (log.writes = <<>> /\ log.calls = <<>>)
          /\ log.cleanup => log.leftover = {})
    /\ [][~Armed => scroll' = scroll]_vars

\* A pointer move is delivered while the loop is disabled, after frames of an armed period
\* have scrolled p1 (28 is no initial offset), and no frame is outstanding.
C1_Witness ==
    /\ ~Armed /\ ~log.armed
    /\ log.kind = "mousemove"
    /\ scheduled = {}
    /\ positionXRef = Null
    /\ scroll["p1"].left = 28

\* C2 (clamping): every value a frame assigns to scrollLeft lies in [0, scrollWidth] and
\* every value it assigns to scrollTop lies in [0, scrollHeight] of the scroll parent.
C2_Clamping ==
    log.kind = "frame" =>
        \A i \in DOMAIN log.writes :
            LET w == log.writes[i]
            IN /\ w.value >= 0
               /\ w.field = "scrollLeft" => w.value <= scrollWidth(log.parent)
               /\ w.field = "scrollTop" => w.value <= scrollHeight(log.parent)

\* A frame whose computed horizontal target is negative and whose computed vertical
\* target exceeds scrollHeight writes 0 and scrollHeight.
C2_Witness ==
    /\ log.kind = "frame"
    /\ log.parent = "p1"
    /\ log.x = Some(-1000)
    /\ log.y = Some(2000)
    /\ log.writes = <<[field |-> "scrollLeft", value |-> 0], [field |-> "scrollTop", value |-> 20]>>

\* C3 (one loop handle): at most one frame request of the instance is outstanding.
C3_AtMostOneLoopHandle == Cardinality(scheduled) <= 1

\* An arming whose cleanup had a handle to cancel (the request left by a frame callback
\* that had been running when the loop was disabled) ends with exactly one request.
C3_Witness ==
    /\ log.kind = "enable"
    /\ log.cancelled # 0
    /\ Cardinality(scheduled) = 1
    /\ handleRef \in {f.handle : f \in scheduled}

\* C4 (cancellation during an executing frame): a frame callback during which the cleanup
\* ran requests no further frame, and no frame request is outstanding when it returns.
C4_NoRescheduleAfterCancel ==
    (log.kind = "frame" /\ log.cleanup) => (log.requested = {} /\ scheduled = {})

\* C5 (no-op outside gutters): a frame whose pointer position lies in
\* [left+size, right-size] x [top+size, bottom-size] of the cached bounds writes no scroll
\* offset, leaves every scroll offset as it was and does not call onScroll.
C5_NoOpOutsideGutters ==
    (log.kind = "frame" /\ log.parent # "null" /\ log.rect # Null /\ log.x # Null /\ log.y # Null) =>
        LET r == Val(log.rect)
            size == Val(log.closure).size
            x == Val(log.x)
            y == Val(log.y)
        IN (r.left + size <= x /\ x <= r.right - size /\ r.top + size <= y /\ y <= r.bottom - size)
              => (log.writes = <<>> /\ log.calls = <<>> /\ scroll = Val(log.before))

\* A frame with the pointer exactly on the left gutter boundary (x = left + size).
C5_Witness ==
    /\ log.kind = "frame"
    /\ log.parent = "p1"
    /\ Val(log.closure).size = 50
    /\ log.x = Some(50)
    /\ log.y = Some(150)
    /\ log.writes = <<>>

\* C6 (not-ready frames): a frame that finds the scroll target, the cached bounds or a
\* pointer coordinate null writes nothing, calls nothing, leaves the scroll offsets alone
\* and requests exactly one next frame, for the same checkScroll.
C6_NotReadyFrames ==
    (log.kind = "frame" /\ (log.parent = "null" \/ log.rect = Null \/ log.x = Null \/ log.y = Null)) =>
        /\ log.writes = <<>>
        /\ log.calls = <<>>
        /\ scroll = Val(log.before)
        /\ Cardinality(log.requested) = 1
        /\ \E f \in scheduled : f.handle \in log.requested /\ f.closure = Val(log.closure)

\* An armed frame that has a target and bounds but no pointer position yet.
C6_Witness ==
    /\ log.kind = "frame"
    /\ log.armed
    /\ log.parent # "null"
    /\ log.rect # Null
    /\ log.x = Null
    /\ Cardinality(scheduled) = 1

\* C7 (pointer position does not survive a disable): while the loop is not enabled the
\* pointer position is null, and a frame that writes a scroll offset or calls onScroll
\* used the position of a move delivered in the current armed period.
C7_PointerDoesNotSurviveDisable ==
    /\ ~Armed => (positionXRef = Null /\ positionYRef = Null)
    /\ (log.kind = "frame" /\ (log.writes # <<>> \/ log.calls # <<>>)) =>
          /\ log.lastMove # Null
          /\ log.x = Some(Val(log.lastMove).x)
          /\ log.y = Some(Val(log.lastMove).y)

\* An armed frame finds no pointer position although p1 has been scrolled before (28 is
\* no initial offset): a position was observed in an earlier armed period.
C7_Witness ==
    /\ log.kind = "frame"
    /\ log.armed
    /\ log.parent = "p1"
    /\ log.x = Null
    /\ log.writes = <<>>
    /\ scroll["p1"].left = 28

\* C8 (onScroll notification): a frame that has target, bounds and position calls onScroll
\* exactly once, with the pointer coordinates it read, if a gutter predicate holds, and
\* not at all otherwise.
C8_OnScrollNotification ==
    (log.kind = "frame" /\ log.parent # "null" /\ log.rect # Null /\ log.x # Null /\ log.y # Null) =>
        LET r == Val(log.rect)
            c == Val(log.closure)
            x == Val(log.x)
            y == Val(log.y)
            hit == x < r.left + c.size \/ x > r.right - c.size
                      \/ y < r.top + c.size \/ y > r.bottom - c.size
        IN IF hit THEN log.calls = <<[fn |-> c.onScroll, x |-> x, y |-> y]>>
                  ELSE log.calls = <<>>

\* A frame in a gutter whose clamped write leaves the offsets of p1 unchanged, with
\* onScroll called all the same.
C8_Witness ==
    /\ log.kind = "frame"
    /\ log.parent = "p1"
    /\ log.x = Some(520)
    /\ log.y = Some(150)
    /\ Len(log.calls) = 1
    /\ Len(log.writes) = 2
    /\ scroll = Val(log.before)

\* C9 (per-frame correction value): in a frame with a gutter hit the value written on
\* each axis is clamp(round(offset + delta), 0, dimension), delta being
\* -(edgeLeft - x)*intensity, (x - edgeRight)*intensity, -(edgeTop - y)*intensity,
\* (y - edgeBottom)*intensity or 0; with bounds {0,0,500,300}, size 50, intensity 1/5 and
\* the pointer at (520,150), scrollLeft rises by 14 up to scrollWidth, scrollTop stays and
\* onScroll(520,150) is called.
C9_CorrectionValue ==
    (log.kind = "frame" /\ log.parent # "null" /\ log.rect # Null /\ log.x # Null /\ log.y # Null) =>
        LET r == Val(log.rect)
            c == Val(log.closure)
            num == c.intensity.num
            den == c.intensity.den
            x == Val(log.x)
            y == Val(log.y)
            old == Val(log.before)[log.parent]
            hit == x < r.left + c.size \/ x > r.right - c.size
                      \/ y < r.top + c.size \/ y > r.bottom - c.size
            \* delta * den on an axis
            delta(lo, hi, v) == IF v < lo + c.size THEN -((lo + c.size - v) * num)
                                ELSE IF v > hi - c.size THEN (v - (hi - c.size)) * num
                                ELSE 0
            \* k is n/den rounded to the nearest integer: k - 1/2 <= n/den < k + 1/2
            rounds(k, n) == 2 * k * den - den <= 2 * n /\ 2 * n < 2 * k * den + den
            clamps(w, k, limit) == IF k < 0 THEN w = 0 ELSE IF k > limit THEN w = limit ELSE w = k
            expected(w, cur, d, limit) ==
                \E k \in ((cur * den + d) \div den)..((cur * den + d) \div den + 1) :
                    rounds(k, cur * den + d) /\ clamps(w, k, limit)
        IN hit =>
            /\ Len(log.writes) = 2
            /\ log.writes[1].field = "scrollLeft"
            /\ expected(log.writes[1].value, old.left, delta(r.left, r.right, x), scrollWidth(log.parent))
            /\ log.writes[2].field = "scrollTop"
            /\ expected(log.writes[2].value, old.top, delta(r.top, r.bottom, y), scrollHeight(log.parent))
            /\ scroll = [Val(log.before) EXCEPT ![log.parent] =
                            [left |-> log.writes[1].value, top |-> log.writes[2].value]]
            /\ (r = [top |-> 0, left |-> 0, right |-> 500, bottom |-> 300] /\ c.size = 50
                    /\ num = 1 /\ den = 5 /\ x = 520 /\ y = 150) =>
                  /\ log.writes[1].value = Min(old.left + 14, scrollWidth(log.parent))
                  /\ log.writes[2].value = old.top
                  /\ log.calls = <<[fn |-> c.onScroll, x |-> 520, y |-> 150]>>

\* The scenario of the claim: the frame raised scrollLeft of p1 from 1 to 15.
C9_Witness ==
    /\ log.kind = "frame"
    /\ log.parent = "p1"
    /\ Val(log.closure).size = 50
    /\ Val(log.closure).intensity = [num |-> 1, den |-> 5]
    /\ log.x = Some(520)
    /\ log.y = Some(150)
    /\ Val(log.before)["p1"].left = 1
    /\ scroll["p1"].left = 15

\* C10 (diagonal independence): in a frame whose pointer position is in a horizontal and
\* in a vertical gutter, the delta computed on each axis is not zero and is the delta that
\* the coordinate of that axis alone determines.
C10_DiagonalIndependence ==
    (log.kind = "frame" /\ log.parent # "null" /\ log.rect # Null /\ log.x # Null /\ log.y # Null) =>
        LET r == Val(log.rect)
            c == Val(log.closure)
            num == c.intensity.num
            den == c.intensity.den
            x == Val(log.x)
            y == Val(log.y)
            old == Val(log.before)[log.parent]
            axis(lo, hi, v) == IF v < lo + c.size THEN -((lo + c.size - v) * num)
                               ELSE IF v > hi - c.size THEN (v - (hi - c.size)) * num
                               ELSE 0
        IN ((x < r.left + c.size \/ x > r.right - c.size) /\ (y < r.top + c.size \/ y > r.bottom - c.size)) =>
            /\ log.next # Null
            /\ Val(log.next).left - old.left * den = axis(r.left, r.right, x)
            /\ Val(log.next).top - old.top * den = axis(r.top, r.bottom, y)
            /\ Val(log.next).left # old.left * den
            /\ Val(log.next).top # old.top * den

\* A frame with the pointer in the top and left gutters of p1 moved both offsets.
C10_Witness ==
    /\ log.kind = "frame"
    /\ log.parent = "p1"
    /\ log.x = Some(40)
    /\ log.y = Some(49)
    /\ scroll["p1"].left < Val(log.before)["p1"].left
    /\ scroll["p1"].top < Val(log.before)["p1"].top


\* C11 (monotonic speed ramp): in a frame that reaches the computation, the magnitude of
\* the delta of an axis is the penetration depth times the intensity (zero when the
\* coordinate is on or inside the gutter boundary), and a pointer deeper in the same
\* gutter would get a delta that is larger by the extra depth times the intensity.
C11_MonotonicSpeedRamp ==
    (log.kind = "frame" /\ log.next # Null) =>
        LET r == Val(log.rect)
            c == Val(log.closure)
            num == c.intensity.num
            den == c.intensity.den
            x == Val(log.x)
            y == Val(log.y)
            old == Val(log.before)[log.parent]
            abs(a) == IF a < 0 THEN -a ELSE a
            \* the gutter of an axis that applies (the low one first) and the depth in it
            gutter(lo, hi, v) == IF v < lo + c.size THEN "low" ELSE IF v > hi - c.size THEN "high" ELSE "none"
            depth(lo, hi, v) == IF v < lo + c.size THEN lo + c.size - v
                                ELSE IF v > hi - c.size THEN v - (hi - c.size)
                                ELSE 0
            dx == Val(log.next).left - old.left * den
            dy == Val(log.next).top - old.top * den
        IN /\ abs(dx) = depth(r.left, r.right, x) * num
           /\ abs(dy) = depth(r.top, r.bottom, y) * num
           /\ \A v \in CalcXs :
                (gutter(r.left, r.right, v) = gutter(r.left, r.right, x)
                    /\ depth(r.left, r.right, v) > depth(r.left, r.right, x)) =>
                   LET dv == nextScrollLeft(r, c.size, c.intensity, v, old.left) - old.left * den
                   IN /\ abs(dv) > abs(dx)
                      /\ abs(dv) - abs(dx) = (depth(r.left, r.right, v) - depth(r.left, r.right, x)) * num
           /\ \A v \in CalcYs :
                (gutter(r.top, r.bottom, v) = gutter(r.top, r.bottom, y)
                    /\ depth(r.top, r.bottom, v) > depth(r.top, r.bottom, y)) =>
                   LET dv == nextScrollTop(r, c.size, c.intensity, v, old.top) - old.top * den
                   IN /\ abs(dv) > abs(dy)
                      /\ abs(dv) - abs(dy) = (depth(r.top, r.bottom, v) - depth(r.top, r.bottom, y)) * num

\* A frame with the pointer on the right gutter boundary of p1 (x = 450 = right - size)
\* and in the top gutter: the horizontal delta is zero, the vertical one is not.
C11_Witness ==
    /\ log.kind = "frame"
    /\ log.parent = "p1"
    /\ Val(log.rect).right = 500
    /\ Val(log.closure).size = 50
    /\ log.x = Some(450)
    /\ log.y = Some(-20)
    /\ log.next # Null
    /\ Val(log.next).left = Val(log.before)["p1"].left * Val(log.closure).intensity.den
    /\ Val(log.next).top # Val(log.before)["p1"].top * Val(log.closure).intensity.den


\* C12 (unconditional reschedule): every frame callback that starts while the loop is
\* enabled requests exactly one next frame running the same checkScroll, whether it
\* returned early, found no gutter hit or wrote a scroll offset; unless its callback shut
\* the loop down, that request is the one the handle names and the only one outstanding.
\* Hence an enabled loop always has a frame outstanding.
C12_UnconditionalReschedule ==
    /\ (log.kind = "frame" /\ log.armed) =>
          /\ Cardinality(log.requested) = 1
          /\ \E g \in scheduled :
                /\ g.handle \in log.requested
                /\ g.closure = Val(log.closure)
                /\ ~log.cleanup => (handleRef = g.handle /\ scheduled = {g})
    /\ Armed => scheduled # {}

\* An enabled frame that knew the target and the pointer, found the pointer outside every
\* gutter and returned early has requested the next frame.
C12_Witness ==
    /\ log.kind = "frame"
    /\ log.armed
    /\ log.x # Null
    /\ log.rect # Null
    /\ log.next = Null
    /\ log.calls = <<>>
    /\ Cardinality(log.requested) = 1
    /\ Cardinality(scheduled) = 1


\* C13 (lifecycle states): between events the instance is either Idle (not enabled, no
\* listener registered, no frame outstanding, no loop handle, pointer position unknown) or
\* Armed (enabled, the mousemove and the touchmove listener of the installed effect
\* registered and nothing else, exactly one frame outstanding).
C13_LifecycleStates ==
    IF Armed
       THEN /\ listeners = {[type |-> "mousemove", id |-> effect.id],
                            [type |-> "touchmove", id |-> effect.id]}
            /\ Cardinality(scheduled) = 1
       ELSE /\ listeners = {}
            /\ scheduled = {}
            /\ handleRef = 0
            /\ positionXRef = Null
            /\ positionYRef = Null


\* C14 (target binding frame): the scroll target and its bounds change only in a step in
\* which the reference changes to a concrete element, and then they become the scroll
\* parent of that element and the rectangle it has at that moment; every other step
\* (frames, pointer moves, enable, disable, renders, layout changes, the reference
\* becoming null) leaves both unchanged, so the target is never cleared once set.
C14_TargetBindingFrame ==
    [][/\ (parentRef' # parentRef \/ parentRectRef' # parentRectRef) =>
              (reference' # reference /\ reference' # "null")
       /\ (reference' # reference /\ reference' # "null") =>
              /\ parentRef' = getScrollParent(reference')
              /\ parentRectRef' = Some(layout[getScrollParent(reference')])
       /\ parentRef # "null" => parentRef' # "null"
       /\ parentRectRef # Null => parentRectRef' # Null]_vars

\* The reference has become null and the target has been laid out again and scrolled by a
\* frame since it was bound: the target is still set and its bounds are the old ones.
C14_Witness ==
    /\ reference = "null"
    /\ parentRef = "p2"
    /\ parentRectRef = Some(InitialLayout["p2"])
    /\ layout["p2"] # InitialLayout["p2"]
    /\ log.kind = "frame"
    /\ log.parent = "p2"
    /\ log.writes # <<>>


\* C15 (last-write-wins pointer): the position an enabled frame uses for the gutter test,
\* for the deltas and as onScroll arguments is the (x, y) of the most recent mousemove or
\* touchmove event delivered in the current armed period (both coordinates from that one
\* event), and it is unknown when no event has been delivered in the period.
C15_LastWriteWinsPointer ==
    (log.kind = "frame" /\ log.armed) =>
        IF log.lastMove = Null
           THEN log.x = Null /\ log.y = Null /\ log.next = Null /\ log.calls = <<>>
           ELSE LET m == Val(log.lastMove)
                    c == Val(log.closure)
                IN /\ log.x = Some(m.x)
                   /\ log.y = Some(m.y)
                   /\ \A i \in DOMAIN log.calls : log.calls[i].x = m.x /\ log.calls[i].y = m.y
                   /\ log.rect # Null =>
                         /\ (log.next = Null) = noEdge(Val(log.rect), c.size, m.x, m.y)
                         /\ log.next # Null =>
                               log.next = Some(nextScroll(Val(log.rect), c.size, c.intensity, m.x, m.y,
                                                          Val(log.before)[log.parent]))

\* A frame scrolls p1 to the left from offset 30, which only an earlier frame with the
\* pointer in the right gutter can have produced: the earlier position is not used.
C15_Witness ==
    /\ log.kind = "frame"
    /\ log.armed
    /\ log.parent = "p1"
    /\ log.lastMove = Some([x |-> -20, y |-> 150])
    /\ Val(log.before)["p1"].left = 30
    /\ log.calls # <<>>
    /\ scroll["p1"].left < 30


\* C16 (opposite gutters are mutually exclusive): in a frame that reaches the computation
\* the change of an axis is nothing, the Left (Top) delta alone or the Right (Bottom)
\* delta alone; when the gutters overlap and both predicates of an axis hold, it is the
\* Left (Top) delta alone.
C16_OppositeGuttersExclusive ==
    (log.kind = "frame" /\ log.next # Null) =>
        LET r == Val(log.rect)
            c == Val(log.closure)
            num == c.intensity.num
            den == c.intensity.den
            x == Val(log.x)
            y == Val(log.y)
            old == Val(log.before)[log.parent]
            dx == Val(log.next).left - old.left * den
            dy == Val(log.next).top - old.top * den
            inLeft == x < r.left + c.size
            inRight == x > r.right - c.size
            inTop == y < r.top + c.size
            inBottom == y > r.bottom - c.size
            deltaLeft == -((r.left + c.size - x) * num)
            deltaRight == (x - (r.right - c.size)) * num
            deltaTop == -((r.top + c.size - y) * num)
            deltaBottom == (y - (r.bottom - c.size)) * num
        IN /\ dx \in {0, deltaLeft, deltaRight}
           /\ dy \in {0, deltaTop, deltaBottom}
           /\ (inLeft /\ inRight) => (dx = deltaLeft /\ dx # deltaLeft + deltaRight)
           /\ (inTop /\ inBottom) => (dy = deltaTop /\ dy # deltaTop + deltaBottom)

\* p1 is 80 wide and 60 high, the gutters are 50: the pointer at (40, 49) is in all four
\* gutters; the frame scrolls left, and the vertical target value is above the old one.
C16_Witness ==
    /\ log.kind = "frame"
    /\ log.parent = "p1"
    /\ log.rect = Some([top |-> 0, left |-> 0, right |-> 80, bottom |-> 60])
    /\ Val(log.closure).size = 50
    /\ log.x = Some(40)
    /\ log.y = Some(49)
    /\ Val(log.before)["p1"] = [left |-> 14, top |-> 14]
    /\ scroll["p1"].left < 14
    /\ Val(log.next).top < 14 * Val(log.closure).intensity.den


\* C17 (configuration captured at arming): the size, the intensity and the onScroll that an
\* enabled frame uses are the values the caller supplied when enabled became true, also
\* when the caller has supplied other values since.
C17_ConfigurationCapturedAtArming ==
    (log.kind = "frame" /\ log.armed) =>
        /\ log.armedProps # Null
        /\ LET a == Val(log.armedProps)
               c == Val(log.closure)
           IN /\ c.size = a.size
              /\ c.intensity = a.intensity
              /\ c.onScroll = a.onScroll
              /\ \A i \in DOMAIN log.calls : log.calls[i].fn = a.onScroll
              /\ (log.rect # Null /\ log.x # Null) =>
                    /\ (log.next = Null) = noEdge(Val(log.rect), a.size, Val(log.x), Val(log.y))
                    /\ log.next # Null =>
                          log.next = Some(nextScroll(Val(log.rect), a.size, a.intensity,
                                                     Val(log.x), Val(log.y),
                                                     Val(log.before)[log.parent]))

\* The loop was armed with the default options and the caller has since supplied size 60,
\* intensity 0.5 and a callback: a frame with the pointer at (250, -20) still computes
\* with size 50 and intensity 0.2 (delta -70/5) and calls the default onScroll.
C17_Witness ==
    /\ log.kind = "frame"
    /\ log.armed
    /\ log.armedProps = Some(DefaultProps)
    /\ props = CallerProps
    /\ log.rect = Some(InitialLayout["p1"])
    /\ log.x = Some(250)
    /\ log.y = Some(-20)
    /\ log.calls = <<[fn |-> "noop", x |-> 250, y |-> -20]>>
    /\ Val(log.next).top = Val(log.before)["p1"].top * 5 - 70


\* C18 (rounding dead zone): in a frame that reaches the computation with the pointer in a
\* gutter of an axis at a depth with depth * intensity < 0.5, the offset written on that
\* axis is the old one and onScroll is still called once; an offset that a frame changes
\* has depth * intensity >= 0.5 on its axis.
C18_RoundingDeadZone ==
    (log.kind = "frame" /\ log.next # Null) =>
        LET r == Val(log.rect)
            c == Val(log.closure)
            num == c.intensity.num
            den == c.intensity.den
            x == Val(log.x)
            y == Val(log.y)
            old == Val(log.before)[log.parent]
            new == scroll[log.parent]
            depth(lo, hi, v) == IF v < lo + c.size THEN lo + c.size - v
                                ELSE IF v > hi - c.size THEN v - (hi - c.size)
                                ELSE 0
            depthX == depth(r.left, r.right, x)
            depthY == depth(r.top, r.bottom, y)
            written(field) == {log.writes[i].value :
                                  i \in {j \in DOMAIN log.writes : log.writes[j].field = field}}
        IN /\ (depthX > 0 /\ 2 * depthX * num < den) =>
                 /\ written("scrollLeft") = {old.left}
                 /\ new.left = old.left
                 /\ Len(log.calls) = 1
           /\ (depthY > 0 /\ 2 * depthY * num < den) =>
                 /\ written("scrollTop") = {old.top}
                 /\ new.top = old.top
                 /\ Len(log.calls) = 1
           /\ new.left # old.left => 2 * depthX * num >= den
           /\ new.top # old.top => 2 * depthY * num >= den

\* Default options, p1 at offset 14, the pointer at (451, 150): depth 1 in the right
\* gutter, 0.2 of a pixel.  The frame writes 14 again and calls onScroll.
C18_Witness ==
    /\ log.kind = "frame"
    /\ log.parent = "p1"
    /\ log.rect = Some(InitialLayout["p1"])
    /\ log.closure # Null
    /\ Val(log.closure).size = 50
    /\ Val(log.closure).intensity = [num |-> 1, den |-> 5]
    /\ log.x = Some(451)
    /\ log.y = Some(150)
    /\ Val(log.before)["p1"].left = 14
    /\ log.next # Null
    /\ Val(log.next).left = 14 * 5 + 1
    /\ scroll["p1"].left = 14
    /\ Len(log.calls) = 1


\* C19 as stated (scrolling reaches the limit): a frame with the pointer in the right
\* (bottom) gutter at a depth with depth * intensity >= 1 strictly increases the offset of
\* that axis while it is below scrollWidth (scrollHeight) and leaves it there once it is
\* equal.  Refuted when the gutters overlap and the pointer is also in the left (top) one.
C19_IncreasesInRightOrBottomGutter ==
    (log.kind = "frame" /\ log.next # Null) =>
        LET r == Val(log.rect)
            c == Val(log.closure)
            x == Val(log.x)
            y == Val(log.y)
            old == Val(log.before)[log.parent]
            new == scroll[log.parent]
        IN /\ (x > r.right - c.size
                 /\ (x - (r.right - c.size)) * c.intensity.num >= c.intensity.den) =>
                 IF old.left < scrollWidth(log.parent)
                    THEN new.left > old.left
                    ELSE new.left = old.left
           /\ (y > r.bottom - c.size
                 /\ (y - (r.bottom - c.size)) * c.intensity.num >= c.intensity.den) =>
                 IF old.top < scrollHeight(log.parent)
                    THEN new.top > old.top
                    ELSE new.top = old.top

\* C19 (scrolling reaches the limit, amended): with the pointer held in the right (bottom)
\* gutter and not in the left (top) one, at a depth with depth * intensity >= 1, every
\* frame strictly increases the offset of that axis while it is below scrollWidth
\* (scrollHeight), never beyond it, and leaves it there once it is equal; with the pointer
\* in the left (top) gutter every frame strictly decreases it while it is above 0 and
\* leaves it at 0.  While frames keep firing the offset reaches that limit.
C19_ScrollingReachesTheLimit ==
    LET c == effect
        r == Val(parentRectRef)
        x == Num(positionXRef)
        y == Num(positionYRef)
        fast(depth) == depth * c.intensity.num >= c.intensity.den
        HeldLeft == x < r.left + c.size /\ fast(r.left + c.size - x)
        HeldRight == ~(x < r.left + c.size) /\ x > r.right - c.size /\ fast(x - (r.right - c.size))
        HeldTop == y < r.top + c.size /\ fast(r.top + c.size - y)
        HeldBottom == ~(y < r.top + c.size) /\ y > r.bottom - c.size /\ fast(y - (r.bottom - c.size))
        old == Val(log.before)[parentRef]
        new == scroll[parentRef]
        Stepped == log.kind = "frame" /\ log.next # Null
        AtRest == /\ HeldRight => scroll[parentRef].left = scrollWidth(parentRef)
                  /\ HeldBottom => scroll[parentRef].top = scrollHeight(parentRef)
                  /\ HeldLeft => scroll[parentRef].left = 0
                  /\ HeldTop => scroll[parentRef].top = 0
    IN /\ [](/\ (Stepped /\ HeldRight) =>
                   /\ new.left <= scrollWidth(parentRef)
                   /\ IF old.left < scrollWidth(parentRef) THEN new.left > old.left
                                                            ELSE new.left = old.left
             /\ (Stepped /\ HeldBottom) =>
                   /\ new.top <= scrollHeight(parentRef)
                   /\ IF old.top < scrollHeight(parentRef) THEN new.top > old.top
                                                            ELSE new.top = old.top
             /\ (Stepped /\ HeldLeft) =>
                   /\ new.left >= 0
                   /\ IF old.left > 0 THEN new.left < old.left ELSE new.left = old.left
             /\ (Stepped /\ HeldTop) =>
                   /\ new.top >= 0
                   /\ IF old.top > 0 THEN new.top < old.top ELSE new.top = old.top)
       /\ <>[]AtRest

\* Default options, the pointer held at x = 520 in the right gutter of p1 (depth 70, 14
\* pixels a frame): the offset went 0, 14, 28 and the last frame has taken it to the
\* limit 30.
C19_Witness ==
    /\ log.kind = "frame"
    /\ log.parent = "p1"
    /\ log.rect = Some(InitialLayout["p1"])
    /\ log.x = Some(520)
    /\ Val(log.closure).intensity = [num |-> 1, den |-> 5]
    /\ Val(log.before)["p1"].left = 28
    /\ scroll["p1"].left = 30

====
